---- MODULE Spec2Model ----
(***************************************************************************)
(* msg_rng: a process-wide GlobalRng, per-entity EntityRng components and  *)
(* the raw StdRng children that fork()/fork_stream() hand out.             *)
(*                                                                         *)
(* A u64 is a little-endian sequence of 8 bytes and a u32 one of 4 bytes,  *)
(* so that wrapping_mul, wrapping_add, ^ and >> are computed at the width  *)
(* the source computes them at.                                            *)
(*                                                                         *)
(* StdRng belongs to the rand crate.  It is modelled as what lib.rs relies *)
(* on: a counter-mode generator whose state is a key expanded from the u64 *)
(* seed and the index of the next 32-bit word of the key's stream; a u32   *)
(* draw takes one word, a u64 draw two.  The word function is a stand-in   *)
(* for the ChaCha block function.                                          *)
(***************************************************************************)
EXTENDS Integers, Sequences, FiniteSets, TLC

VARIABLES scenario, global, entities, child, twinGlobal, twinEntities, twinChild,
          ctor, streamLog, last

vars == <<scenario, global, entities, child, twinGlobal, twinEntities, twinChild,
          ctor, streamLog, last>>

(***************************************************************************)
(* Bounds of the model.                                                    *)
(***************************************************************************)
\* Words drawn from the GlobalRng, from an EntityRng, from a forked StdRng
\* since it was last (re)seeded.
MaxIndex == 4

MaxEntityIndex == 2

MaxChildIndex == 2

(***************************************************************************)
(* 64-bit arithmetic on byte sequences.                                    *)
(***************************************************************************)
U64FromNat(n) == [i \in 1..8 |-> IF i <= 4 THEN (n \div (256 ^ (i - 1))) % 256 ELSE 0]

U32FromNat(n) == [i \in 1..4 |-> (n \div (256 ^ (i - 1))) % 256]

U32Max == <<255, 255, 255, 255>>

U64Max == <<255, 255, 255, 255, 255, 255, 255, 255>>

\* `x as u64` for a u32 x: zero extension.
AsU64(x) == x \o <<0, 0, 0, 0>>

XorNib == [a \in 0..15, b \in 0..15 |->
             (((a % 2) + (b % 2)) % 2)
           + ((((a \div 2) % 2) + ((b \div 2) % 2)) % 2) * 2
           + ((((a \div 4) % 2) + ((b \div 4) % 2)) % 2) * 4
           + ((((a \div 8) % 2) + ((b \div 8) % 2)) % 2) * 8]

XorByte(a, b) == XorNib[a \div 16, b \div 16] * 16 + XorNib[(a % 16), (b % 16)]

\* a ^ b
Xor64(a, b) == [i \in 1..8 |-> XorByte(a[i], b[i])]

\* a >> 32
Shr32(a) == [i \in 1..8 |-> IF i <= 4 THEN a[i + 4] ELSE 0]

\* a.wrapping_add(b): byte sums with the carry of the byte below.
wrapping_add(a, b) ==
    LET s1 == a[1] + b[1]
        s2 == a[2] + b[2] + (s1 \div 256)
        s3 == a[3] + b[3] + (s2 \div 256)
        s4 == a[4] + b[4] + (s3 \div 256)
        s5 == a[5] + b[5] + (s4 \div 256)
        s6 == a[6] + b[6] + (s5 \div 256)
        s7 == a[7] + b[7] + (s6 \div 256)
        s8 == a[8] + b[8] + (s7 \div 256)
    IN  <<s1 % 256, s2 % 256, s3 % 256, s4 % 256, s5 % 256, s6 % 256, s7 % 256, s8 % 256>>

\* a.wrapping_mul(b): column k sums the byte products a[i] * b[k + 1 - i]
\* and the carry of the column below.
wrapping_mul(a, b) ==
    LET c1 == a[1] * b[1]
        c2 == a[1] * b[2] + a[2] * b[1] + (c1 \div 256)
        c3 == a[1] * b[3] + a[2] * b[2] + a[3] * b[1] + (c2 \div 256)
        c4 == a[1] * b[4] + a[2] * b[3] + a[3] * b[2] + a[4] * b[1] + (c3 \div 256)
        c5 == a[1] * b[5] + a[2] * b[4] + a[3] * b[3] + a[4] * b[2] + a[5] * b[1]
              + (c4 \div 256)
        c6 == a[1] * b[6] + a[2] * b[5] + a[3] * b[4] + a[4] * b[3] + a[5] * b[2] + a[6] * b[1]
              + (c5 \div 256)
        c7 == a[1] * b[7] + a[2] * b[6] + a[3] * b[5] + a[4] * b[4] + a[5] * b[3] + a[6] * b[2] + a[7] * b[1]
              + (c6 \div 256)
        c8 == a[1] * b[8] + a[2] * b[7] + a[3] * b[6] + a[4] * b[5] + a[5] * b[4] + a[6] * b[3] + a[7] * b[2] + a[8] * b[1]
              + (c7 \div 256)
    IN  <<c1 % 256, c2 % 256, c3 % 256, c4 % 256, c5 % 256, c6 % 256, c7 % 256, c8 % 256>>

(***************************************************************************)
(* hash_combine: the seed-mixing function.                                 *)
(***************************************************************************)
\* 0x517c_c1b7_2722_0a95
HashMul == <<149, 10, 34, 39, 183, 193, 124, 81>>

\* hash_combine() that multiplies a before it xors b in.
hash_combine_MulFirst(a, b) ==
    LET h1 == wrapping_mul(a, HashMul)
        h2 == Xor64(h1, b)
    IN  Xor64(h2, Shr32(h2))

hash_combine(a, b) ==
    LET h1 == Xor64(a, b)
        h2 == wrapping_mul(h1, HashMul)
    IN  Xor64(h2, Shr32(h2))

(***************************************************************************)
(* StdRng.                                                                 *)
(***************************************************************************)
\* 6364136223846793005 and 11634580027462260723, the step with which
\* SeedableRng::seed_from_u64 expands its argument.
PcgMul == <<45, 127, 149, 76, 45, 244, 81, 88>>

PcgInc == <<243, 23, 190, 111, 228, 84, 118, 161>>

NoRng == [key |-> <<>>, index |-> 0]

seed_from_u64(seed) ==
    [key |-> wrapping_add(wrapping_mul(seed, PcgMul), PcgInc), index |-> 0]

\* The index-th 32-bit word of the stream of key.
Word(key, index) ==
    SubSeq(wrapping_mul(wrapping_add(key, U64FromNat(index)), PcgMul), 5, 8)

next_u32(rng) ==
    [rng |-> [rng EXCEPT !.index = @ + 1], val |-> Word(rng.key, rng.index)]

\* Two words of the stream, the low word first.
next_u64(rng) ==
    [rng |-> [rng EXCEPT !.index = @ + 2],
     val |-> Word(rng.key, rng.index) \o Word(rng.key, rng.index + 1)]

\* rng.random::<T>() for T in {"u32", "u64"}
random(rng, T) == IF T = "u32" THEN next_u32(rng) ELSE next_u64(rng)

\* Words a draw of type T takes.
Width(T) == IF T = "u32" THEN 1 ELSE 2

\* Option<T>.
None == <<>>

Some(x) == <<x>>

\* rng.random_range(0..len), len > 0 (an empty range panics): one word of the
\* generator reduced to the range, low byte last.
random_range(rng, len) ==
    LET word == next_u32(rng)
        w == word.val
    IN  [rng |-> word.rng,
         val |-> ((((((w[4] % len) * 256 + w[3]) % len) * 256 + w[2]) % len)
                      * 256 + w[1]) % len]

\* An f64 that is a multiple of 2^-53: sign and magnitude, the magnitude a
\* u64 counting units of 2^-53.
F64(neg, mag) == [neg |-> neg, mag |-> mag]

F64Zero == U64FromNat(0)

\* 1.0 in units of 2^-53.
F64One == <<0, 0, 0, 0, 0, 0, 32, 0>>

\* a < b, both u64.
LtU64(a, b) ==
    \E i \in 1..8 : a[i] < b[i] /\ \A j \in (i + 1)..8 : a[j] = b[j]

\* x < p, x an f64 in units of 2^-53 that is not negative.
LtF64(x, p) == ~p.neg /\ LtU64(x, p.mag)

\* x >> k for a u64 x and k in 0..7, after a shift by whole bytes.
ShrBits(x, bytes, k) ==
    LET y == SubSeq(x, bytes + 1, 8) \o [i \in 1..bytes |-> 0]
        z == y \o <<0>>
    IN  [i \in 1..8 |->
            (y[i] \div (2 ^ k)) + (z[i + 1] % (2 ^ k)) * (2 ^ (8 - k))]

\* rng.random::<f64>() that keeps 54 bits of the u64: a value in [0, 2).
random_f64_Shr10(rng) ==
    LET value == next_u64(rng)
    IN  [rng |-> value.rng, val |-> ShrBits(value.val, 1, 2)]

\* rng.random::<f64>(): the high 53 bits of a u64, in units of 2^-53: a value
\* in [0, 1).
random_f64(rng) ==
    LET value == next_u64(rng)
    IN  [rng |-> value.rng, val |-> ShrBits(value.val, 1, 3)]

(***************************************************************************)
(* GlobalRng.  A method with &mut self and a result is a record            *)
(* [self |-> the generator afterwards, ret |-> the result].                *)
(***************************************************************************)
GlobalRng_random(entropy) == [rng |-> seed_from_u64(entropy), seed |-> entropy]

GlobalRng_seeded(seed) == [rng |-> seed_from_u64(seed), seed |-> seed]

GlobalRng_seed(self) == self.seed

\* reset() that leaves the stream where it is.
GlobalRng_reset_KeepsPosition(self) == self

GlobalRng_reset(self) == [self EXCEPT !.rng = seed_from_u64(self.seed)]

\* reseed() without `self.seed = seed`.
GlobalRng_reseed_StateOnly(self, seed) == [self EXCEPT !.rng = seed_from_u64(seed)]

GlobalRng_reseed(self, seed) == [rng |-> seed_from_u64(seed), seed |-> seed]

\* fork() with `let child_seed: u32`.
GlobalRng_fork_U32(self) ==
    LET child_seed == next_u32(self.rng)
    IN  [self |-> [self EXCEPT !.rng = child_seed.rng],
         ret  |-> seed_from_u64(AsU64(child_seed.val))]

\* fork() that also stores child_seed as the seed of the parent.
GlobalRng_fork_StoresChildSeed(self) ==
    LET child_seed == next_u64(self.rng)
    IN  [self |-> [rng |-> child_seed.rng, seed |-> child_seed.val],
         ret  |-> seed_from_u64(child_seed.val)]

GlobalRng_fork(self) ==
    LET child_seed == next_u64(self.rng)
    IN  [self |-> [self EXCEPT !.rng = child_seed.rng],
         ret  |-> seed_from_u64(child_seed.val)]

\* fork_stream() that mixes the stream id in with hash_combine.
GlobalRng_fork_stream_Mixed(self, stream) ==
    LET base == next_u64(self.rng)
        combined == hash_combine(base.val, AsU64(stream))
    IN  [self |-> [self EXCEPT !.rng = base.rng],
         ret  |-> seed_from_u64(combined)]

GlobalRng_fork_stream(self, stream) ==
    LET base == next_u64(self.rng)
        combined == wrapping_add(base.val, AsU64(stream))
    IN  [self |-> [self EXCEPT !.rng = base.rng],
         ret  |-> seed_from_u64(combined)]

GlobalRng_u32(self) ==
    LET r == next_u32(self.rng)
    IN  [self |-> [self EXCEPT !.rng = r.rng], ret |-> r.val]

GlobalRng_u64(self) ==
    LET r == next_u64(self.rng)
    IN  [self |-> [self EXCEPT !.rng = r.rng], ret |-> r.val]

GlobalRng_chance(self, probability) ==
    LET unit == random_f64(self.rng)
    IN  [self |-> [self EXCEPT !.rng = unit.rng],
         ret  |-> LtF64(unit.val, probability)]

\* choose() that draws the word before it looks at the slice.
GlobalRng_choose_DrawsFirst(self, slice) ==
    LET word == next_u32(self.rng)
        idx == random_range(self.rng, Len(slice))
    IN  IF slice = <<>>
        THEN [self |-> [self EXCEPT !.rng = word.rng], ret |-> None]
        ELSE [self |-> [self EXCEPT !.rng = idx.rng],
              ret  |-> Some(slice[idx.val + 1])]

GlobalRng_choose(self, slice) ==
    IF slice = <<>>
    THEN [self |-> self, ret |-> None]
    ELSE LET idx == random_range(self.rng, Len(slice))
         IN  [self |-> [self EXCEPT !.rng = idx.rng],
              ret  |-> Some(slice[idx.val + 1])]

GlobalRng_choose_index(self, slice) ==
    IF slice = <<>>
    THEN [self |-> self, ret |-> None]
    ELSE LET idx == random_range(self.rng, Len(slice))
         IN  [self |-> [self EXCEPT !.rng = idx.rng], ret |-> Some(idx.val)]

(***************************************************************************)
(* EntityRng.                                                              *)
(***************************************************************************)
NoEntity == [rng |-> NoRng, seed |-> <<>>]

EntityRng_random(entropy) == [rng |-> seed_from_u64(entropy), seed |-> entropy]

EntityRng_seeded(seed) == [rng |-> seed_from_u64(seed), seed |-> seed]

\* entropy is the value rand::random::<u64>() returns: the thread-local
\* generator of the rand crate, not the generator held by g.
EntityRng_from_global(g, entropy) ==
    LET seed == hash_combine(g.seed, entropy)
    IN  [rng |-> seed_from_u64(seed), seed |-> seed]

\* from_global_and_id() that xors its arguments and leaves out the mixing.
EntityRng_from_global_and_id_NoMix(global_seed, entity_index) ==
    LET seed == Xor64(global_seed, AsU64(entity_index))
    IN  [rng |-> seed_from_u64(seed), seed |-> seed]

\* from_global_and_id() with `entity_index as u8 as u64`.
EntityRng_from_global_and_id_LowByte(global_seed, entity_index) ==
    LET seed == hash_combine(global_seed, AsU64(<<entity_index[1], 0, 0, 0>>))
    IN  [rng |-> seed_from_u64(seed), seed |-> seed]

EntityRng_from_global_and_id(global_seed, entity_index) ==
    LET seed == hash_combine(global_seed, AsU64(entity_index))
    IN  [rng |-> seed_from_u64(seed), seed |-> seed]

EntityRng_seed(self) == self.seed

EntityRng_reset(self) == [self EXCEPT !.rng = seed_from_u64(self.seed)]

EntityRng_random_value(self, T) ==
    LET r == random(self.rng, T)
    IN  [self |-> [self EXCEPT !.rng = r.rng], ret |-> r.val]

EntityRng_chance(self, probability) ==
    LET unit == random_f64(self.rng)
    IN  [self |-> [self EXCEPT !.rng = unit.rng],
         ret  |-> LtF64(unit.val, probability)]

EntityRng_choose(self, slice) ==
    IF slice = <<>>
    THEN [self |-> self, ret |-> None]
    ELSE LET idx == random_range(self.rng, Len(slice))
         IN  [self |-> [self EXCEPT !.rng = idx.rng],
              ret  |-> Some(slice[idx.val + 1])]

\* impl RngFork for EntityRng
EntityRng_fork(self) ==
    LET child_seed == next_u64(self.rng)
    IN  [self |-> [self EXCEPT !.rng = child_seed.rng],
         ret  |-> seed_from_u64(child_seed.val)]

(***************************************************************************)
(* Inputs.                                                                 *)
(***************************************************************************)
\* Seeds the caller passes to seeded(), reseed() and from_global_and_id().
Seeds == {U64FromNat(1), U64FromNat(2)}

\* Values rand::random::<u64>() returns.
Entropy == {<<239, 190, 173, 222, 13, 240, 254, 202>>, U64Max}

\* Entity indices passed to from_global_and_id().
Ids == {U32FromNat(1), U32FromNat(2)}

\* Entity indices a generator made by from_global_and_id() is compared with.
EntityIndices ==
    Ids \cup {U32FromNat(0), U32FromNat(3), <<1, 1, 0, 0>>, <<1, 0, 0, 1>>, U32Max}

\* Stream ids passed to fork_stream().
Streams == {U32FromNat(0), U32Max}

\* Stream ids a fork_stream() call is compared with.
StreamIds ==
    Streams \cup {U32FromNat(1), U32FromNat(2), <<0, 1, 0, 0>>, <<0, 0, 0, 128>>}

\* Probabilities passed to chance(): -1.0, -0.0, 0.0, 2^-53, 0.5, 1 - 2^-53,
\* 1.0 and 1.5.
Probabilities ==
    {F64(TRUE, F64One), F64(TRUE, F64Zero), F64(FALSE, F64Zero),
     F64(FALSE, U64FromNat(1)), F64(FALSE, <<0, 0, 0, 0, 0, 0, 16, 0>>),
     F64(FALSE, <<255, 255, 255, 255, 255, 255, 31, 0>>),
     F64(FALSE, F64One), F64(FALSE, <<0, 0, 0, 0, 0, 0, 48, 0>>)}

\* Slices passed to choose() and choose_index().
Slices == {<<>>, <<7>>, <<7, 8, 9>>}

\* T of GlobalRng::u32/u64 and of the draws from a forked StdRng.
DrawTypes == {"u32", "u64"}

\* T of EntityRng::random_value::<T>().
EntityDrawTypes == {"u64"}

\* The entities the world scenario spawns.
Slots == {1, 2}

(***************************************************************************)
(* State.                                                                  *)
(*   global, entities, child : the GlobalRng resource, the EntityRng of    *)
(*       each spawned entity, the StdRng the latest fork handed out (a     *)
(*       temporary: dropped when the caller turns to another generator).   *)
(*   twinGlobal, twinEntities, twinChild : a second run, in which every    *)
(*       generator is built by seeded(s), s the seed of its counterpart,   *)
(*       and is then taken through the same operations.                    *)
(*   ctor : how each generator was constructed.                            *)
(*   scenario : which systems the application runs.  "root": systems that  *)
(*       hold ResMut<GlobalRng> and use every operation of the resource    *)
(*       and its forks.  "world": systems that spawn entities and drive    *)
(*       their EntityRng beside a resource that draws and resets.          *)
(*       "play": systems that spawn entities from the resource and use     *)
(*       the helpers of their EntityRng (chance, choose).                  *)
(*   streamLog : the latest fork_stream call: the resource it was called   *)
(*       on, the stream id, the StdRng returned, and whether the call      *)
(*       before it had the same resource state and stream id.              *)
(*   last : the latest operation and what it returned in either run.       *)
(***************************************************************************)
Scenarios == {"root", "world", "play"}

NoCtor == [how |-> "none", a |-> <<>>, b |-> <<>>, gen |-> NoEntity]

Ctor(how, a, b, gen) == [how |-> how, a |-> a, b |-> b, gen |-> gen]

Last(op, id, arg, val, tval, ret, tret) ==
    [op |-> op, id |-> id, arg |-> arg, val |-> val, tval |-> tval,
     ret |-> ret, tret |-> tret]

NoStream == [self |-> NoEntity, stream |-> <<>>, ret |-> NoRng, again |-> FALSE]

InitGlobals ==
    {Ctor("seeded", s, <<>>, GlobalRng_seeded(s)) : s \in Seeds}
    \cup {Ctor("random", e, <<>>, GlobalRng_random(e)) : e \in Entropy}

\* RngPlugin::build: the resource is inserted, nothing is spawned.
Init ==
    \E c \in InitGlobals :
        /\ scenario \in Scenarios
        /\ global = c.gen
        /\ twinGlobal = GlobalRng_seeded(GlobalRng_seed(c.gen))
        /\ entities = [i \in Slots |-> NoEntity]
        /\ twinEntities = [i \in Slots |-> NoEntity]
        /\ child = NoRng
        /\ twinChild = NoRng
        /\ ctor = [global |-> c, reseed |-> <<>>,
                   entities |-> [i \in Slots |-> NoCtor]]
        /\ streamLog = NoStream
        /\ last = Last("build", 0, <<>>, <<>>, <<>>, NoRng, NoRng)

(***************************************************************************)
(* Operations on the GlobalRng.                                            *)
(***************************************************************************)
GlobalU32 ==
    /\ global.rng.index + 1 <= MaxIndex
    /\ LET r == GlobalRng_u32(global)
           t == GlobalRng_u32(twinGlobal)
       IN  /\ global' = r.self
           /\ twinGlobal' = t.self
           /\ last' = Last("GlobalRng::u32", 0, <<>>, r.ret, t.ret, NoRng, NoRng)
    /\ child' = NoRng
    /\ twinChild' = NoRng
    /\ UNCHANGED <<scenario, entities, twinEntities, ctor, streamLog>>

GlobalU64 ==
    /\ global.rng.index + 2 <= MaxIndex
    /\ LET r == GlobalRng_u64(global)
           t == GlobalRng_u64(twinGlobal)
       IN  /\ global' = r.self
           /\ twinGlobal' = t.self
           /\ last' = Last("GlobalRng::u64", 0, <<>>, r.ret, t.ret, NoRng, NoRng)
    /\ child' = NoRng
    /\ twinChild' = NoRng
    /\ UNCHANGED <<scenario, entities, twinEntities, ctor, streamLog>>

GlobalReset ==
    /\ global' = GlobalRng_reset(global)
    /\ twinGlobal' = GlobalRng_reset(twinGlobal)
    /\ last' = Last("GlobalRng::reset", 0, <<>>, <<>>, <<>>, NoRng, NoRng)
    /\ child' = NoRng
    /\ twinChild' = NoRng
    /\ UNCHANGED <<scenario, entities, twinEntities, ctor, streamLog>>

GlobalReseed(seed) ==
    /\ global' = GlobalRng_reseed(global, seed)
    /\ twinGlobal' = GlobalRng_reseed(twinGlobal, seed)
    /\ ctor' = [ctor EXCEPT !.reseed = seed]
    /\ last' = Last("GlobalRng::reseed", 0, seed, <<>>, <<>>, NoRng, NoRng)
    /\ child' = NoRng
    /\ twinChild' = NoRng
    /\ UNCHANGED <<scenario, entities, twinEntities, streamLog>>

\* fork() with `let child_seed: u64 = rand::random()`, as from_global has it.
GlobalFork_ThreadRng ==
    /\ global.rng.index + 2 <= MaxIndex
    /\ \E entropy \in Entropy, twinEntropy \in Entropy :
           /\ child' = seed_from_u64(entropy)
           /\ twinChild' = seed_from_u64(twinEntropy)
           /\ last' = Last("GlobalRng::fork", 0, <<>>, <<>>, <<>>,
                           seed_from_u64(entropy), seed_from_u64(twinEntropy))
    /\ UNCHANGED <<scenario, global, twinGlobal, entities, twinEntities, ctor,
                   streamLog>>

GlobalFork ==
    /\ global.rng.index + 2 <= MaxIndex
    /\ LET r == GlobalRng_fork(global)
           t == GlobalRng_fork(twinGlobal)
       IN  /\ global' = r.self
           /\ twinGlobal' = t.self
           /\ child' = r.ret
           /\ twinChild' = t.ret
           /\ last' = Last("GlobalRng::fork", 0, <<>>, <<>>, <<>>, r.ret, t.ret)
    /\ UNCHANGED <<scenario, entities, twinEntities, ctor, streamLog>>

\* fork_stream() with `let base: u64 = rand::random()`.
GlobalForkStream_ThreadRng(stream) ==
    /\ global.rng.index + 2 <= MaxIndex
    /\ \E entropy \in Entropy, twinEntropy \in Entropy :
           LET ret == seed_from_u64(wrapping_add(entropy, AsU64(stream)))
               tret == seed_from_u64(wrapping_add(twinEntropy, AsU64(stream)))
           IN  /\ child' = ret
               /\ twinChild' = tret
               /\ streamLog' = [self |-> global, stream |-> stream, ret |-> ret,
                                again |-> /\ streamLog.self = global
                                          /\ streamLog.stream = stream]
               /\ last' = Last("GlobalRng::fork_stream", 0, stream, <<>>, <<>>,
                               ret, tret)
    /\ UNCHANGED <<scenario, global, twinGlobal, entities, twinEntities, ctor>>

GlobalForkStream(stream) ==
    /\ global.rng.index + 2 <= MaxIndex
    /\ LET r == GlobalRng_fork_stream(global, stream)
           t == GlobalRng_fork_stream(twinGlobal, stream)
       IN  /\ global' = r.self
           /\ twinGlobal' = t.self
           /\ child' = r.ret
           /\ twinChild' = t.ret
           /\ streamLog' = [self |-> global, stream |-> stream, ret |-> r.ret,
                            again |-> /\ streamLog.self = global
                                      /\ streamLog.stream = stream]
           /\ last' = Last("GlobalRng::fork_stream", 0, stream, <<>>, <<>>,
                           r.ret, t.ret)
    /\ UNCHANGED <<scenario, entities, twinEntities, ctor>>

GlobalChance(probability) ==
    /\ global.rng.index + 2 <= MaxIndex
    /\ LET r == GlobalRng_chance(global, probability)
           t == GlobalRng_chance(twinGlobal, probability)
       IN  /\ global' = r.self
           /\ twinGlobal' = t.self
           /\ last' = Last("GlobalRng::chance", 0, probability, r.ret, t.ret,
                           NoRng, NoRng)
    /\ child' = NoRng
    /\ twinChild' = NoRng
    /\ UNCHANGED <<scenario, entities, twinEntities, ctor, streamLog>>

GlobalChoose(slice) ==
    /\ slice # <<>> => global.rng.index + 1 <= MaxIndex
    /\ LET r == GlobalRng_choose(global, slice)
           t == GlobalRng_choose(twinGlobal, slice)
       IN  /\ global' = r.self
           /\ twinGlobal' = t.self
           /\ last' = Last("GlobalRng::choose", 0, slice, r.ret, t.ret,
                           NoRng, NoRng)
    /\ child' = NoRng
    /\ twinChild' = NoRng
    /\ UNCHANGED <<scenario, entities, twinEntities, ctor, streamLog>>

GlobalChooseIndex(slice) ==
    /\ slice # <<>> => global.rng.index + 1 <= MaxIndex
    /\ LET r == GlobalRng_choose_index(global, slice)
           t == GlobalRng_choose_index(twinGlobal, slice)
       IN  /\ global' = r.self
           /\ twinGlobal' = t.self
           /\ last' = Last("GlobalRng::choose_index", 0, slice, r.ret, t.ret,
                           NoRng, NoRng)
    /\ child' = NoRng
    /\ twinChild' = NoRng
    /\ UNCHANGED <<scenario, entities, twinEntities, ctor, streamLog>>

(***************************************************************************)
(* Spawning an entity: the next free slot receives a new EntityRng.        *)
(***************************************************************************)
Free(i) ==
    /\ entities[i] = NoEntity
    /\ \A j \in Slots : j < i => entities[j] # NoEntity

Spawn(i, op, c) ==
    /\ Free(i)
    /\ entities' = [entities EXCEPT ![i] = c.gen]
    /\ twinEntities' = [twinEntities EXCEPT ![i] = EntityRng_seeded(EntityRng_seed(c.gen))]
    /\ ctor' = [ctor EXCEPT !.entities[i] = c]
    /\ last' = Last(op, i, c.a \o c.b, <<>>, <<>>, NoRng, NoRng)
    /\ child' = NoRng
    /\ twinChild' = NoRng

EntityRandom(i, entropy) ==
    /\ Spawn(i, "EntityRng::random",
             Ctor("random", entropy, <<>>, EntityRng_random(entropy)))
    /\ UNCHANGED <<scenario, global, twinGlobal, streamLog>>

EntitySeeded(i, seed) ==
    /\ Spawn(i, "EntityRng::seeded",
             Ctor("seeded", seed, <<>>, EntityRng_seeded(seed)))
    /\ UNCHANGED <<scenario, global, twinGlobal, streamLog>>

\* from_global takes &GlobalRng: the resource is read, never written.
EntityFromGlobal(i, entropy) ==
    /\ Spawn(i, "EntityRng::from_global",
             Ctor("from_global", <<>>, <<>>, EntityRng_from_global(global, entropy)))
    /\ UNCHANGED <<scenario, global, twinGlobal, streamLog>>

EntityFromGlobalAndId(i, global_seed, entity_index) ==
    /\ Spawn(i, "EntityRng::from_global_and_id",
             Ctor("from_global_and_id", global_seed, entity_index,
                  EntityRng_from_global_and_id(global_seed, entity_index)))
    /\ UNCHANGED <<scenario, global, twinGlobal, streamLog>>

(***************************************************************************)
(* Operations on a spawned entity's EntityRng.                             *)
(***************************************************************************)
EntityReset(i) ==
    /\ entities[i] # NoEntity
    /\ entities' = [entities EXCEPT ![i] = EntityRng_reset(@)]
    /\ twinEntities' = [twinEntities EXCEPT ![i] = EntityRng_reset(@)]
    /\ last' = Last("EntityRng::reset", i, <<>>, <<>>, <<>>, NoRng, NoRng)
    /\ child' = NoRng
    /\ twinChild' = NoRng
    /\ UNCHANGED <<scenario, global, twinGlobal, ctor, streamLog>>

\* random_value() that draws from the StdRng of the GlobalRng resource.
EntityRandomValue_SharedStream(i, T) ==
    /\ entities[i] # NoEntity
    /\ global.rng.index + Width(T) <= MaxIndex
    /\ LET r == random(global.rng, T)
           t == random(twinGlobal.rng, T)
       IN  /\ global' = [global EXCEPT !.rng = r.rng]
           /\ twinGlobal' = [twinGlobal EXCEPT !.rng = t.rng]
           /\ last' = Last("EntityRng::random_value", i, <<>>, r.val, t.val,
                           NoRng, NoRng)
    /\ child' = NoRng
    /\ twinChild' = NoRng
    /\ UNCHANGED <<scenario, entities, twinEntities, ctor, streamLog>>

EntityRandomValue(i, T) ==
    /\ entities[i] # NoEntity
    /\ entities[i].rng.index + Width(T) <= MaxEntityIndex
    /\ LET r == EntityRng_random_value(entities[i], T)
           t == EntityRng_random_value(twinEntities[i], T)
       IN  /\ entities' = [entities EXCEPT ![i] = r.self]
           /\ twinEntities' = [twinEntities EXCEPT ![i] = t.self]
           /\ last' = Last("EntityRng::random_value", i, <<>>, r.ret, t.ret,
                           NoRng, NoRng)
    /\ child' = NoRng
    /\ twinChild' = NoRng
    /\ UNCHANGED <<scenario, global, twinGlobal, ctor, streamLog>>

EntityFork(i) ==
    /\ entities[i] # NoEntity
    /\ entities[i].rng.index + 2 <= MaxEntityIndex
    /\ LET r == EntityRng_fork(entities[i])
           t == EntityRng_fork(twinEntities[i])
       IN  /\ entities' = [entities EXCEPT ![i] = r.self]
           /\ twinEntities' = [twinEntities EXCEPT ![i] = t.self]
           /\ child' = r.ret
           /\ twinChild' = t.ret
           /\ last' = Last("EntityRng::fork", i, <<>>, <<>>, <<>>, r.ret, t.ret)
    /\ UNCHANGED <<scenario, global, twinGlobal, ctor, streamLog>>

EntityChance(i, probability) ==
    /\ entities[i] # NoEntity
    /\ entities[i].rng.index + 2 <= MaxEntityIndex
    /\ LET r == EntityRng_chance(entities[i], probability)
           t == EntityRng_chance(twinEntities[i], probability)
       IN  /\ entities' = [entities EXCEPT ![i] = r.self]
           /\ twinEntities' = [twinEntities EXCEPT ![i] = t.self]
           /\ last' = Last("EntityRng::chance", i, probability, r.ret, t.ret,
                           NoRng, NoRng)
    /\ child' = NoRng
    /\ twinChild' = NoRng
    /\ UNCHANGED <<scenario, global, twinGlobal, ctor, streamLog>>

EntityChoose(i, slice) ==
    /\ entities[i] # NoEntity
    /\ slice # <<>> => entities[i].rng.index + 1 <= MaxEntityIndex
    /\ LET r == EntityRng_choose(entities[i], slice)
           t == EntityRng_choose(twinEntities[i], slice)
       IN  /\ entities' = [entities EXCEPT ![i] = r.self]
           /\ twinEntities' = [twinEntities EXCEPT ![i] = t.self]
           /\ last' = Last("EntityRng::choose", i, slice, r.ret, t.ret,
                           NoRng, NoRng)
    /\ child' = NoRng
    /\ twinChild' = NoRng
    /\ UNCHANGED <<scenario, global, twinGlobal, ctor, streamLog>>

(***************************************************************************)
(* A draw from the StdRng a fork returned.                                 *)
(***************************************************************************)
ChildDraw(T) ==
    /\ child # NoRng
    /\ child.index + Width(T) <= MaxChildIndex
    /\ LET r == random(child, T)
           t == random(twinChild, T)
       IN  /\ child' = r.rng
           /\ twinChild' = t.rng
           /\ last' = Last("StdRng::random", 0, <<>>, r.val, t.val, NoRng, NoRng)
    /\ UNCHANGED <<scenario, global, twinGlobal, entities, twinEntities, ctor, streamLog>>

Root == scenario = "root"

World == scenario = "world"

Play == scenario = "play"

Next ==
    \/ GlobalU64
    \/ GlobalReset
    \/ Root /\ GlobalU32
    \/ Root /\ \E seed \in Seeds : GlobalReseed(seed)
    \/ Root /\ GlobalFork
    \/ Root /\ \E stream \in Streams : GlobalForkStream(stream)
    \/ Root /\ \E probability \in Probabilities : GlobalChance(probability)
    \/ Root /\ \E slice \in Slices : GlobalChoose(slice)
    \/ Root /\ \E slice \in Slices : GlobalChooseIndex(slice)
    \/ World /\ \E i \in Slots, entropy \in Entropy : EntityRandom(i, entropy)
    \/ World /\ \E i \in Slots, seed \in Seeds : EntitySeeded(i, seed)
    \/ World /\ \E i \in Slots, entropy \in Entropy : EntityFromGlobal(i, entropy)
    \/ World /\ \E i \in Slots, seed \in Seeds, id \in Ids :
                    EntityFromGlobalAndId(i, seed, id)
    \/ World /\ \E i \in Slots : EntityReset(i)
    \/ World /\ \E i \in Slots, T \in EntityDrawTypes : EntityRandomValue(i, T)
    \/ World /\ \E i \in Slots : EntityFork(i)
    \/ Play /\ \E i \in Slots, entropy \in Entropy : EntityFromGlobal(i, entropy)
    \/ Play /\ \E i \in Slots, probability \in Probabilities :
                   EntityChance(i, probability)
    \/ Play /\ \E i \in Slots, slice \in Slices : EntityChoose(i, slice)
    \/ \E T \in DrawTypes : ChildDraw(T)

Spec == Init /\ [][Next]_vars

(***************************************************************************)
(* Which generator the latest operation was called on.                     *)
(***************************************************************************)
GlobalOps ==
    {"GlobalRng::u32", "GlobalRng::u64", "GlobalRng::reset", "GlobalRng::reseed",
     "GlobalRng::fork", "GlobalRng::fork_stream", "GlobalRng::chance",
     "GlobalRng::choose", "GlobalRng::choose_index"}

EntityCtors ==
    {"EntityRng::random", "EntityRng::seeded", "EntityRng::from_global",
     "EntityRng::from_global_and_id"}

EntityOps ==
    {"EntityRng::reset", "EntityRng::random_value", "EntityRng::fork",
     "EntityRng::chance", "EntityRng::choose"}

Spawned(i) == entities[i] # NoEntity

(***************************************************************************)
(* C1.  Determinism: a generator and a generator built by seeded() from    *)
(* the same seed and taken through the same operations have the same seed  *)
(* and state after every operation, and every operation returned the same  *)
(* value and the same forked generator to both.  GlobalRng and EntityRng.  *)
(***************************************************************************)
SeededRunsAgree ==
    /\ twinGlobal = global
    /\ twinEntities = entities
    /\ twinChild = child
    /\ last.tval = last.val
    /\ last.tret = last.ret

SeededRunsAgreeWitness ==
    /\ ctor.global.how = "seeded"
    /\ ctor.reseed # <<>>
    /\ last.op = "GlobalRng::fork_stream"
    /\ global.rng.index = 3

(***************************************************************************)
(* C2.  The seed of an EntityRng made by from_global is                    *)
(* hash_combine(the resource's seed, the next u64 of the resource's own    *)
(* sequence).                                                              *)
(***************************************************************************)
FromGlobalMixesRootDraw ==
    [][last'.op = "EntityRng::from_global"
         => entities'[last'.id].seed
              = hash_combine(global.seed, next_u64(global.rng).val)]_vars

(***************************************************************************)
(* C3.  from_global consumes exactly one draw of the resource: afterwards  *)
(* the resource is the same resource advanced by one u64, seed unchanged.  *)
(***************************************************************************)
FromGlobalConsumesOneDraw ==
    [][last'.op = "EntityRng::from_global"
         => global' = GlobalRng_u64(global).self]_vars

(***************************************************************************)
(* C4.  from_global_and_id(seed, id) touches no generator, and the seed of *)
(* its result is hash_combine(seed, id): two entities made from equal      *)
(* arguments have equal seeds and, after equally many words, equal states. *)
(***************************************************************************)
FromIdStep ==
    last'.op = "EntityRng::from_global_and_id"
        => /\ global' = global
           /\ \A j \in Slots : j # last'.id => entities'[j] = entities[j]
           /\ entities'[last'.id].rng = seed_from_u64(entities'[last'.id].seed)

FromIdState ==
    \A i \in Slots :
        ctor.entities[i].how = "from_global_and_id"
            => /\ entities[i].seed
                    = hash_combine(ctor.entities[i].a, AsU64(ctor.entities[i].b))
               /\ \A j \in Slots :
                      /\ ctor.entities[j].how = "from_global_and_id"
                      /\ ctor.entities[j].a = ctor.entities[i].a
                      /\ ctor.entities[j].b = ctor.entities[i].b
                      => /\ entities[j].seed = entities[i].seed
                         /\ entities[j].rng.index = entities[i].rng.index
                                => entities[j].rng = entities[i].rng

FromIdIsPure == []FromIdState /\ [][FromIdStep]_vars

FromIdIsPureWitness ==
    /\ ctor.entities[1].how = "from_global_and_id"
    /\ ctor.entities[2] = [ctor.entities[1] EXCEPT !.how = "from_global_and_id"]
    /\ entities[1].rng.index = 2
    /\ entities[2].rng.index = 2
    /\ global.rng.index > 0

(***************************************************************************)
(* C5.  Independence: an operation on one generator changes the seed and   *)
(* state of no other generator, whatever the interleaving; a forked StdRng *)
(* changes only by its own draws, until it is dropped or replaced.         *)
(***************************************************************************)
Independent ==
    [][/\ last'.op \notin GlobalOps => global' = global
       /\ \A i \in Slots :
              ~(last'.op \in EntityCtors \cup EntityOps /\ last'.id = i)
                  => entities'[i] = entities[i]
       /\ (child' # child /\ child' # NoRng)
              => last'.op \in {"StdRng::random", "GlobalRng::fork",
                               "GlobalRng::fork_stream", "EntityRng::fork"}]_vars

IndependentWitness ==
    /\ global.rng.index > 0
    /\ entities[1].rng.index > 0
    /\ entities[2].rng.index > 0
    /\ ctor.entities[1].how = "from_global"
    /\ last.op = "StdRng::random"

(***************************************************************************)
(* C6.  fork() advances its parent by exactly one u64 draw and seeds the   *)
(* child with the value drawn; draws from the child leave the parent as    *)
(* it is.  GlobalRng::fork and RngFork for EntityRng.                      *)
(***************************************************************************)
ForkDrawsOneU64 ==
    [][/\ last'.op = "GlobalRng::fork"
            => /\ global' = GlobalRng_u64(global).self
               /\ last'.ret = seed_from_u64(GlobalRng_u64(global).ret)
               /\ child' = last'.ret
       /\ last'.op = "EntityRng::fork"
            => LET draw == EntityRng_random_value(entities[last'.id], "u64")
               IN  /\ entities'[last'.id] = draw.self
                   /\ last'.ret = seed_from_u64(draw.ret)
                   /\ child' = last'.ret
       /\ last'.op = "StdRng::random"
            => /\ global' = global
               /\ entities' = entities]_vars

ForkDrawsOneU64Witness ==
    /\ last.op = "StdRng::random"
    /\ child.index = 2
    /\ global.rng.index = 3
    /\ scenario = "root"

(***************************************************************************)
(* C7.  fork_stream(id) draws exactly one u64 from the resource, and the   *)
(* child is determined by the resource's state at the call and id: a call  *)
(* with the state and id of the call before it returns an equal StdRng.    *)
(***************************************************************************)
StreamForkDeterministic ==
    [][last'.op = "GlobalRng::fork_stream"
         => /\ global' = GlobalRng_u64(global).self
            /\ (streamLog.self = global /\ streamLog.stream = last'.arg)
                  => last'.ret = streamLog.ret]_vars

StreamForkDeterministicWitness ==
    /\ streamLog.again
    /\ streamLog.self.rng.index = 1
    /\ last.op = "GlobalRng::fork_stream"

(***************************************************************************)
(* C8.  reset() keeps the seed and makes the generator the generator that  *)
(* seeded(seed()) returns, whatever was drawn before.                      *)
(***************************************************************************)
ResetRestoresSeeded ==
    [][/\ last'.op = "GlobalRng::reset"
            => /\ global'.seed = global.seed
               /\ global' = GlobalRng_seeded(GlobalRng_seed(global))
       /\ last'.op = "EntityRng::reset"
            => /\ entities'[last'.id].seed = entities[last'.id].seed
               /\ entities'[last'.id]
                    = EntityRng_seeded(EntityRng_seed(entities[last'.id]))]_vars

ResetRestoresSeededWitness ==
    /\ last.op = "GlobalRng::reset"
    /\ ctor.reseed # <<>>
    /\ ctor.reseed # ctor.global.gen.seed
    /\ global.rng.index = 0

(***************************************************************************)
(* C9.  Without reseed, seed() is the seed the generator was constructed   *)
(* with in every reachable state, and seeded(seed()) has the state the     *)
(* generator had when it was constructed.                                  *)
(***************************************************************************)
SeedOf(c) == IF c.how \in {"seeded", "random"} THEN c.a ELSE c.gen.seed

SeedRetained ==
    /\ ctor.reseed = <<>>
         => /\ GlobalRng_seed(global) = SeedOf(ctor.global)
            /\ GlobalRng_seeded(GlobalRng_seed(global)).rng = ctor.global.gen.rng
    /\ \A i \in Slots :
           Spawned(i)
             => /\ EntityRng_seed(entities[i]) = SeedOf(ctor.entities[i])
                /\ EntityRng_seeded(EntityRng_seed(entities[i])).rng
                     = ctor.entities[i].gen.rng

SeedRetainedWitness ==
    /\ ctor.reseed = <<>>
    /\ ctor.global.how = "random"
    /\ last.op = "GlobalRng::fork"
    /\ global.rng.index = MaxIndex

(***************************************************************************)
(* C10.  After reseed(n), seed() is n and the state is that of seeded(n);  *)
(* seed and state never disagree, and reset() goes back to the state of    *)
(* seeded(n), not to that of the seed before.                              *)
(***************************************************************************)
ReseedReplacesBoth ==
    /\ global.rng.key = seed_from_u64(global.seed).key
    /\ ctor.reseed # <<>>
         => /\ GlobalRng_seed(global) = ctor.reseed
            /\ last.op \in {"GlobalRng::reseed", "GlobalRng::reset"}
                 => global = GlobalRng_seeded(ctor.reseed)

ReseedReplacesBothWitness ==
    /\ ctor.reseed # <<>>
    /\ ctor.reseed # ctor.global.gen.seed
    /\ last.op = "GlobalRng::reseed"
    /\ global.rng.index = 0

(***************************************************************************)
(* C11.  Under one global seed, distinct entity indices give distinct      *)
(* retained seeds: the seed of an entity made by from_global_and_id(s, i)  *)
(* differs from the seed from_global_and_id(s, j) retains for every j # i, *)
(* and two such entities with equal s and distinct indices differ in seed. *)
(***************************************************************************)
DistinctIdsDistinctSeeds ==
    \A i \in Slots :
        ctor.entities[i].how = "from_global_and_id"
            => /\ \A id \in EntityIndices :
                      id # ctor.entities[i].b
                          => EntityRng_seed(EntityRng_from_global_and_id(
                                 ctor.entities[i].a, id))
                               # EntityRng_seed(entities[i])
               /\ \A j \in Slots :
                      /\ ctor.entities[j].how = "from_global_and_id"
                      /\ ctor.entities[j].a = ctor.entities[i].a
                      /\ ctor.entities[j].b # ctor.entities[i].b
                      => EntityRng_seed(entities[j]) # EntityRng_seed(entities[i])

DistinctIdsDistinctSeedsWitness ==
    /\ ctor.entities[1].how = "from_global_and_id"
    /\ ctor.entities[2].how = "from_global_and_id"
    /\ ctor.entities[1].a = ctor.entities[2].a
    /\ ctor.entities[1].b # ctor.entities[2].b
    /\ entities[1].rng.index = 2
    /\ entities[2].rng.index = 2

(***************************************************************************)
(* C12.  choose and choose_index on an empty slice return None and leave   *)
(* the generator as it was (seed and state), so its next draw is the draw  *)
(* it would have made without the call; on a non-empty slice they return   *)
(* an element, or an index, of that slice.  GlobalRng and EntityRng.       *)
(***************************************************************************)
ChooseOnEmptyDrawsNothing ==
    [][/\ last'.op \in {"GlobalRng::choose", "GlobalRng::choose_index"}
            => IF last'.arg = <<>>
               THEN /\ last'.val = None
                    /\ global' = global
                    /\ GlobalRng_u64(global').ret = GlobalRng_u64(global).ret
               ELSE IF last'.op = "GlobalRng::choose"
                    THEN \E k \in 1..Len(last'.arg) :
                             last'.val = Some(last'.arg[k])
                    ELSE \E k \in 0..(Len(last'.arg) - 1) : last'.val = Some(k)
       /\ last'.op = "EntityRng::choose"
            => IF last'.arg = <<>>
               THEN /\ last'.val = None
                    /\ entities' = entities
                    /\ EntityRng_random_value(entities'[last'.id], "u64").ret
                         = EntityRng_random_value(entities[last'.id], "u64").ret
               ELSE \E k \in 1..Len(last'.arg) :
                        last'.val = Some(last'.arg[k])]_vars

ChooseOnEmptyDrawsNothingWitness ==
    /\ last.op \in {"GlobalRng::choose", "GlobalRng::choose_index"}
    /\ last.arg = <<>>
    /\ last.val = None
    /\ global.rng.index = 3

(***************************************************************************)
(* C13.  chance(p) returns (unit draw in [0, 1)) < p, p as it was passed:  *)
(* false whenever p <= 0.0 and true whenever p >= 1.0, in every state of   *)
(* the generator it is called in.  GlobalRng and EntityRng.                *)
(***************************************************************************)
F64LeZero(p) == p.neg \/ p.mag = F64Zero

F64GeOne(p) == ~p.neg /\ ~LtU64(p.mag, F64One)

ChanceOf(rng, p, val) ==
    /\ F64LeZero(p) => val = FALSE
    /\ F64GeOne(p) => val = TRUE
    /\ val = LtF64(random_f64(rng).val, p)
    /\ LtU64(random_f64(rng).val, F64One)

ChanceAtTheEdges ==
    [][/\ last'.op = "GlobalRng::chance"
            => ChanceOf(global.rng, last'.arg, last'.val)
       /\ last'.op = "EntityRng::chance"
            => ChanceOf(entities[last'.id].rng, last'.arg, last'.val)]_vars

ChanceAtTheEdgesWitness ==
    /\ last.op = "GlobalRng::chance"
    /\ last.arg = F64(FALSE, F64One)
    /\ last.val = TRUE
    /\ global.rng.index = 4
    /\ ctor.global.how = "random"

(***************************************************************************)
(* C14.  hash_combine(a, b) is a function of a XOR b, hence commutative:   *)
(* from_global_and_id(s, i) and from_global_and_id(s', i') with            *)
(* s XOR i = s' XOR i' retain the same seed and draw the same sequence,    *)
(* as (1, 2) and (2, 1) do.                                                *)
(***************************************************************************)
XorOf(c) == Xor64(c.a, AsU64(c.b))

MixDependsOnXorOnly ==
    \A i \in Slots :
        ctor.entities[i].how = "from_global_and_id"
            => /\ hash_combine(ctor.entities[i].a, AsU64(ctor.entities[i].b))
                    = hash_combine(AsU64(ctor.entities[i].b), ctor.entities[i].a)
               /\ EntityRng_seed(entities[i])
                    = hash_combine(XorOf(ctor.entities[i]), U64FromNat(0))
               /\ \A s \in Seeds, id \in EntityIndices :
                      Xor64(s, AsU64(id)) = XorOf(ctor.entities[i])
                          => EntityRng_seed(EntityRng_from_global_and_id(s, id))
                               = EntityRng_seed(entities[i])
               /\ \A j \in Slots :
                      /\ ctor.entities[j].how = "from_global_and_id"
                      /\ XorOf(ctor.entities[j]) = XorOf(ctor.entities[i])
                      => /\ EntityRng_seed(entities[j]) = EntityRng_seed(entities[i])
                         /\ EntityRng_reset(entities[j]) = EntityRng_reset(entities[i])
                         /\ entities[j].rng.index = entities[i].rng.index
                                => /\ entities[j] = entities[i]
                                   /\ EntityRng_random_value(entities[j], "u64")
                                        = EntityRng_random_value(entities[i], "u64")

MixDependsOnXorOnlyWitness ==
    /\ ctor.entities[1].how = "from_global_and_id"
    /\ ctor.entities[2].how = "from_global_and_id"
    /\ ctor.entities[1].a = U64FromNat(1)
    /\ ctor.entities[1].b = U32FromNat(2)
    /\ ctor.entities[2].a = U64FromNat(2)
    /\ ctor.entities[2].b = U32FromNat(1)
    /\ entities[1].rng.index = 2
    /\ entities[2].rng.index = 2
    /\ last.op = "EntityRng::random_value"

(***************************************************************************)
(* C15.  fork_stream(stream) seeds the child with the u64 it draws plus    *)
(* stream, modulo 2^64: at one position of the parent any other stream id  *)
(* gives a child with another seed, and fork_stream(0) returns the child,  *)
(* and leaves the parent, that fork() would at that position.              *)
(***************************************************************************)
StreamSeed(self, stream) ==
    wrapping_add(GlobalRng_u64(self).ret, AsU64(stream))

StreamSeedIsDrawPlusId ==
    [][last'.op = "GlobalRng::fork_stream"
         => /\ last'.ret = seed_from_u64(StreamSeed(global, last'.arg))
            /\ \A other \in StreamIds :
                   other # last'.arg
                       => /\ StreamSeed(global, other) # StreamSeed(global, last'.arg)
                          /\ GlobalRng_fork_stream(global, other).ret # last'.ret
            /\ last'.arg = U32FromNat(0)
                   => /\ last'.ret = GlobalRng_fork(global).ret
                      /\ global' = GlobalRng_fork(global).self]_vars

StreamSeedIsDrawPlusIdWitness ==
    /\ last.op = "GlobalRng::fork_stream"
    /\ last.arg = U32FromNat(0)
    /\ global.rng.index = 4
    /\ ctor.global.how = "random"
    /\ child # NoRng

====
